---- MODULE Spec2Model ----
(***************************************************************************)
(* Model of src/main.ts: the FaaS example client.  A run validates its     *)
(* mode selector, performs the account pre-checks against the sponsor      *)
(* (Faas), optionally drives the interactive (psbt) or the non-interactive *)
(* (psbtni) exchange, and lists the sponsor's records.  The wallet         *)
(* (NODE_CLIENT) and the sponsor (faas) are remote collaborators: every    *)
(* awaited call is one step, it may throw, and what the sponsor returns is *)
(* chosen by the sponsor, not by the client.                               *)
(***************************************************************************)
EXTENDS Integers, Sequences, FiniteSets, TLC

\* ------------------------------------------------------------------ bounds

\* Largest number of coins the wallet reports at start.
MaxCoins == 2
\* Largest amount of one coin.
MaxAmount == 2

\* ------------------------------------------------------- program constants

OUTPUT_ADDRESS == "OUTPUT_ADDRESS"
FAAS_KEY == "FAAS_KEY"
ASSET_BTC == "BTC"

\* An address that is not OUTPUT_ADDRESS, an api key that is not FAAS_KEY and
\* an asset that is not ASSET_BTC: what a sponsor may answer instead.
OtherAddress == "other-address"
OtherKey == "other-key"
OtherAsset == "other-asset"

\* enum UserChoice
UserChoice == {"basic", "psbt", "psbtni"}
\* process.argv.slice()[2]: a recognized value, another string, or undefined.
Argv == UserChoice \cup {"none", "undefined"}

\* The runs started against the same wallet and sponsor.
Runs == {1, 2}

\* ------------------------------------------------------------------- data

\* A PSBT: the inputs (txid, vout), the outputs (address, amount) and the
\* SIG_HASH type of the customer's signature ("unsigned" when there is none).
NoPSBT == [ins |-> <<>>, outs |-> <<>>, sig |-> "null"]
\* A record of the sponsor (PSBT / PSBTNI of the faas library).
NoRecord == [asset |-> "", id |-> 0, state |-> "", psbt |-> NoPSBT]
\* The states a sponsor reports for a record.
RecordStates == {"FeeAdded", "Broadcast"}
\* The fee-paying input the sponsor adds.
SponsorInput == [txid |-> 0, vout |-> 0]

Coin(t, a) == [txid |-> t, vout |-> 0, amount |-> a]
\* What the wallet may hold at start: coin i has txid i, any amount.
Wallets ==
    UNION { [1..n -> 1..MaxAmount] : n \in 0..MaxCoins }
WalletOf(f) == [i \in DOMAIN f |-> Coin(i, f[i])]

RECURSIVE SumAmounts(_)
SumAmounts(s) == IF s = <<>> THEN 0 ELSE s[1].amount + SumAmounts(Tail(s))

\* The coin of `coins` an input refers to.
CoinsOf(in, coins) ==
    SelectSeq(coins, LAMBDA c : c.txid = in.txid /\ c.vout = in.vout)
RECURSIVE InputAmount(_, _)
InputAmount(ins, coins) ==
    IF ins = <<>> THEN 0
    ELSE SumAmounts(CoinsOf(ins[1], coins)) + InputAmount(Tail(ins), coins)

VARIABLES
    unspent,          \* wallet: the coins listunspent reports (line 48)
    records,          \* sponsor: id -> the record it stores (lines 132, 134)
    choice,           \* per run: process.argv.slice()[2] (lines 190, 240)
    pc,               \* per run: the await the run is suspended at
    trace,            \* per run: the collaborator calls, checks and console lines
    unspentUTXOs,     \* getPSBT local (line 48)
    customerPSBT,     \* getPSBT local (line 72)
    originalPSBT,     \* psbt: what getPSBT(false) resolved to (line 130)
    feeIncludedPSBT,  \* psbt local (line 132)
    readPSBT,         \* psbt local (line 134)
    signedPSBT,       \* psbt local (line 145)
    broadcastPSBT,    \* psbt local (line 148)
    signedPSBTNI,     \* psbtni: what getPSBT(true, "ALL|ANYONECANPAY") resolved to (line 171)
    broadcastPSBTNI,  \* psbtni local (line 173)
    readPSBTNI        \* psbtni local (line 175)

env == <<unspent, records>>
getPSBTLocals == <<unspentUTXOs, customerPSBT>>
psbtLocals == <<originalPSBT, feeIncludedPSBT, readPSBT, signedPSBT, broadcastPSBT>>
psbtniLocals == <<signedPSBTNI, broadcastPSBTNI, readPSBTNI>>
vars == <<unspent, records, choice, pc, trace, unspentUTXOs, customerPSBT,
          originalPSBT, feeIncludedPSBT, readPSBT, signedPSBT, broadcastPSBT,
          signedPSBTNI, broadcastPSBTNI, readPSBTNI>>

\* ---------------------------------------------------------------- events

\* One line of a run's trace: the operation, whether it returned (TRUE) or
\* threw (FALSE), and one detail (the SIG_HASH type of a signing call, the
\* state of the record a sponsor call returned, the console text).
Ev(op, ok, arg) == <<op, ok, arg>>
Log(r, evs) == trace' = [trace EXCEPT ![r] = @ \o evs]

WalletOps == {"listunspent", "createpsbt", "walletprocesspsbt"}
PreCheckOps == {"readApiKey", "readCredit", "readFee", "readRate"}
ListingOps == {"readPSBTs", "readPSBTNIs"}
ExchangeOps == {"createPSBT", "readPSBT", "updatePSBT", "createPSBTNI", "readPSBTNI"}
SponsorOps == PreCheckOps \cup ListingOps \cup ExchangeOps
CollaboratorOps == WalletOps \cup SponsorOps


\* ------------------------------------------------------- pure functions

\* Mutant: a comparison that never throws.
deepStrictEqual_NeverThrows(a, b) == TRUE

\* node:assert deepStrictEqual on plain data: passes iff the two are equal.
deepStrictEqual(a, b) == a = b

\* The detail an equality check of two records leaves in the trace: the
\* first field the AssertionError's diff shows ("" when there is none).
Diff(actual, expected) ==
    IF actual.asset # expected.asset THEN "asset"
    ELSE IF actual.id # expected.id THEN "id"
    ELSE IF actual.state # expected.state THEN "state"
    ELSE IF actual.psbt # expected.psbt THEN "psbt"
    ELSE ""

\* Mutant: the selector is not validated.
ValidChoice_Unchecked(c) == TRUE

\* Object.values(UserChoice).includes(choice)
ValidChoice(c) == c \in UserChoice

\* Mutant: a missing first coin does not stop getPSBT.
HasCoin_Unchecked(utxos) == TRUE

\* getPSBT, lines 55-57: unspentUTXOs[0] is undefined when no coin is
\* reported, and reading its txid throws a TypeError.
HasCoin(utxos) == utxos # <<>>
\* The detail a listunspent call leaves in the trace.
Reported(utxos) == IF utxos = <<>> THEN "no coin" ELSE "coins"

\* getPSBT, lines 55-64: the single input is the first reported coin.
Inputs(utxos) == << [txid |-> utxos[1].txid, vout |-> utxos[1].vout] >>
\* Mutant: the output carries the total of all reported coins.
Outputs_Total(utxos) ==
    << [address |-> OUTPUT_ADDRESS, amount |-> SumAmounts(utxos)] >>

\* getPSBT, lines 66-70: the single output sends that coin's amount to
\* OUTPUT_ADDRESS.
Outputs(utxos) == << [address |-> OUTPUT_ADDRESS, amount |-> utxos[1].amount] >>

\* NODE_CLIENT.createpsbt: an unsigned PSBT with these inputs and outputs.
createpsbt(ins, outs) == [ins |-> ins, outs |-> outs, sig |-> "unsigned"]

\* NODE_CLIENT.walletprocesspsbt: signs with the SIG_HASH type when asked to.
walletprocesspsbt(psbt, sign, sighashtype) ==
    IF sign THEN [psbt EXCEPT !.sig = sighashtype] ELSE psbt

\* The arguments getPSBT is called with, by flow (lines 130 and 171; the
\* default of sighashtype is "ALL", line 47).
GetPSBTSign(flow) == flow = "psbtni"
\* Mutant: the non-interactive flow leaves the SIG_HASH type at its default.
GetPSBTSigHash_Default(flow) == "ALL"
GetPSBTSigHash(flow) == IF flow = "psbtni" THEN "ALL|ANYONECANPAY" ELSE "ALL"
\* The arguments processPSBT is called with (line 145).
ProcessPSBTSign == TRUE
ProcessPSBTSigHash == "ALL"
\* The detail a signing call leaves in the trace.
SignArg(sign, sighashtype) == IF sign THEN sighashtype ELSE "unsigned"

\* ---------------------------------------------------------- the sponsor

\* The sponsor adds its fee-paying input.
AddFees(b) == [b EXCEPT !.ins = Append(@, SponsorInput)]
\* A sponsor that rewrites the destination of the customer's output.
Tamper(b) ==
    [b EXCEPT !.outs[1].address =
        IF @ = OUTPUT_ADDRESS THEN OtherAddress ELSE OUTPUT_ADDRESS]
OtherState(s) == IF s = "Broadcast" THEN "FeeAdded" ELSE "Broadcast"
Ids == Runs
OtherId(i) == IF i = 1 THEN 2 ELSE 1
\* The id the sponsor assigns to its next record.
NextId == CHOOSE i \in Ids :
            /\ records[i] = NoRecord
            /\ \A j \in Ids : j < i => records[j] # NoRecord

\* What createPSBT / createPSBTNI may return for a submitted blob, what
\* updatePSBT may return, and what a read by id may return: the sponsor is
\* remote, so the state it reports and the blob it sends back are its choice.
CreateResponses(blob) ==
    { [asset |-> ASSET_BTC, id |-> NextId, state |-> s, psbt |-> b] :
        s \in RecordStates, b \in {AddFees(blob), Tamper(AddFees(blob))} }
UpdateResponses(id, blob) ==
    { [asset |-> ASSET_BTC, id |-> id, state |-> s, psbt |-> b] :
        s \in RecordStates, b \in {blob, Tamper(blob)} }
Mutations(rec) ==
    { [rec EXCEPT !.asset = OtherAsset], [rec EXCEPT !.id = OtherId(@)],
      [rec EXCEPT !.state = OtherState(@)], [rec EXCEPT !.psbt = Tamper(@)] }
ReadResponses(id) == {records[id]} \cup Mutations(records[id])

\* The ledger: a record reported Broadcast whose blob carries the customer's
\* signature over outputs the customer signed, and whose customer inputs are
\* still unspent, spends them; outputs to OUTPUT_ADDRESS come back to the
\* wallet as new coins (listunspent is asked with minconf 0).
IsSpent(c, ins) == \E i \in 1..Len(ins) : ins[i].txid = c.txid /\ ins[i].vout = c.vout
CustomerIns(b) == SelectSeq(b.ins, LAMBDA in : in # SponsorInput)
Spendable(b, coins) ==
    \A i \in 1..Len(CustomerIns(b)) : CoinsOf(CustomerIns(b)[i], coins) # <<>>
TxidOf(id) == MaxCoins + id
NewCoins(id, b) ==
    IF b.outs[1].address = OUTPUT_ADDRESS
    THEN << Coin(TxidOf(id), b.outs[1].amount) >> ELSE <<>>
Ledger(rec, signed) ==
    IF /\ rec.state = "Broadcast"
       /\ signed.sig # "unsigned"
       /\ rec.psbt.outs = signed.outs
       /\ Spendable(signed, unspent)
    THEN SelectSeq(unspent, LAMBDA c : ~IsSpent(c, signed.ins)) \o NewCoins(rec.id, signed)
    ELSE unspent

\* ------------------------------------------------------ control helpers

Set(f, r, v) == [f EXCEPT ![r] = v]

ClearGetPSBT(r) ==
    /\ unspentUTXOs' = Set(unspentUTXOs, r, <<>>)
    /\ customerPSBT' = Set(customerPSBT, r, NoPSBT)
ClearFlows(r) ==
    /\ originalPSBT' = Set(originalPSBT, r, NoPSBT)
    /\ feeIncludedPSBT' = Set(feeIncludedPSBT, r, NoRecord)
    /\ readPSBT' = Set(readPSBT, r, NoRecord)
    /\ signedPSBT' = Set(signedPSBT, r, NoPSBT)
    /\ broadcastPSBT' = Set(broadcastPSBT, r, NoRecord)
    /\ signedPSBTNI' = Set(signedPSBTNI, r, NoPSBT)
    /\ broadcastPSBTNI' = Set(broadcastPSBTNI, r, NoRecord)
    /\ readPSBTNI' = Set(readPSBTNI, r, NoRecord)

\* Where run continues once the exchange flow has returned (lines 219, 232).
AfterFlow(flow) == IF flow = "psbt" THEN "readPSBTs" ELSE "readPSBTNIs"
\* What the flow's catch prints (lines 155 and 180).
FailedLine(flow) == IF flow = "psbt" THEN "PSBT failed:" ELSE "PSBTNI failed:"
\* Mutant: the flow's catch never hands control back to run.
CatchTarget_Hang(flow) == "catch"

\* Mutant: the flow's catch starts the exchange over.
CatchTarget_Retry(flow) == "listunspent"

\* Where the flow's catch hands control (lines 154-157, 179-182): the error
\* is printed and the flow's promise resolves, so run goes on.
CatchTarget(flow) == AfterFlow(flow)

\* lines 154-156 / 179-181: an error thrown anywhere in the flow, after the
\* events evs.
Catch(r, evs) ==
    /\ Log(r, evs \o << Ev("console.error", TRUE, FailedLine(choice[r])) >>)
    /\ pc' = Set(pc, r, CatchTarget(choice[r]))
    /\ ClearGetPSBT(r)
    /\ ClearFlows(r)
    /\ UNCHANGED <<env, choice>>

\* line 242: run rejected with the error e, after the events evs.
Reject(r, evs, message) ==
    /\ Log(r, evs \o << Ev("console.log", TRUE, message) >>)
    /\ pc' = Set(pc, r, "done")
    /\ UNCHANGED <<env, choice, getPSBTLocals, psbtLocals, psbtniLocals>>

\* A step of run outside the flows that goes on to the await `next`.
Goto(r, evs, next) ==
    /\ Log(r, evs)
    /\ pc' = Set(pc, r, next)
    /\ UNCHANGED <<env, choice, getPSBTLocals, psbtLocals, psbtniLocals>>


\* ----------------------------------------------------------------- run

\* lines 190-200: the selector is validated, the Faas client is built and
\* its url and key compared with the configuration (both local).
RunStart(r) ==
    /\ pc[r] = "run"
    /\ IF ValidChoice(choice[r])
       THEN Goto(r, <<>>, "readApiKey")
       ELSE Reject(r, <<>>, "Invalid user choice.")

\* line 202
ReadApiKey(r) ==
    /\ pc[r] = "readApiKey"
    /\ \/ Reject(r, << Ev("readApiKey", FALSE, "") >>, "error")
       \/ \E key \in {FAAS_KEY, OtherKey} :
            IF deepStrictEqual(key, FAAS_KEY)
            THEN Goto(r, << Ev("readApiKey", TRUE, key) >>, "readCredit")
            ELSE Reject(r, << Ev("readApiKey", TRUE, key) >>, "AssertionError")

\* lines 204-205
ReadCredit(r) ==
    /\ pc[r] = "readCredit"
    /\ \/ Reject(r, << Ev("readCredit", FALSE, "") >>, "error")
       \/ Goto(r, << Ev("readCredit", TRUE, "") >>, "readFee")

\* lines 207-208
ReadFee(r) ==
    /\ pc[r] = "readFee"
    /\ \/ Reject(r, << Ev("readFee", FALSE, "") >>, "error")
       \/ Goto(r, << Ev("readFee", TRUE, "") >>, "readRate")

\* Mutant: the interactive flow is entered whatever the selector.
AfterReadRate_Any(c) == "listunspent"

\* Where run goes after the pre-checks (line 215) and after the first listing
\* (line 228): into the flow the selector names, or past it.
AfterReadRate(c) == IF c = "psbt" THEN "listunspent" ELSE "readPSBTs"
AfterReadPSBTs(c) == IF c = "psbtni" THEN "listunspent" ELSE "readPSBTNIs"

\* lines 210-217
ReadRate(r) ==
    /\ pc[r] = "readRate"
    /\ \/ Reject(r, << Ev("readRate", FALSE, "") >>, "error")
       \/ Goto(r, << Ev("readRate", TRUE, "") >>, AfterReadRate(choice[r]))

\* lines 219-230
ReadPSBTs(r) ==
    /\ pc[r] = "readPSBTs"
    /\ \/ Reject(r, << Ev("readPSBTs", FALSE, "") >>, "error")
       \/ Goto(r, << Ev("readPSBTs", TRUE, "") >>, AfterReadPSBTs(choice[r]))

\* lines 232-238 and 241
ReadPSBTNIs(r) ==
    /\ pc[r] = "readPSBTNIs"
    /\ \/ Reject(r, << Ev("readPSBTNIs", FALSE, "") >>, "error")
       \/ Goto(r, << Ev("readPSBTNIs", TRUE, ""), Ev("console.log", TRUE, "Done.") >>,
               "done")

\* ------------------------------------------------------------- getPSBT

\* lines 48-70: listunspent, then the first coin is read (a TypeError when
\* there is none).
ListUnspent(r) ==
    /\ pc[r] = "listunspent"
    /\ \/ Catch(r, << Ev("listunspent", FALSE, "") >>)
       \/ /\ ~HasCoin(unspent)
          /\ Catch(r, << Ev("listunspent", TRUE, Reported(unspent)) >>)
       \/ /\ HasCoin(unspent)
          /\ Log(r, << Ev("listunspent", TRUE, Reported(unspent)) >>)
          /\ unspentUTXOs' = Set(unspentUTXOs, r, unspent)
          /\ pc' = Set(pc, r, "createpsbt")
          /\ UNCHANGED <<env, choice, customerPSBT, psbtLocals, psbtniLocals>>

\* lines 72-77
CreatePsbt(r) ==
    /\ pc[r] = "createpsbt"
    /\ \/ Catch(r, << Ev("createpsbt", FALSE, "") >>)
       \/ /\ Log(r, << Ev("createpsbt", TRUE, "") >>)
          /\ customerPSBT' = Set(customerPSBT, r,
                createpsbt(Inputs(unspentUTXOs[r]), Outputs(unspentUTXOs[r])))
          /\ pc' = Set(pc, r, "walletprocesspsbt")
          /\ UNCHANGED <<env, choice, unspentUTXOs, psbtLocals, psbtniLocals>>

\* lines 79-88, and the .then of lines 130 / 171 receiving the result
WalletProcessPsbt(r) ==
    /\ pc[r] = "walletprocesspsbt"
    /\ LET sign == GetPSBTSign(choice[r])
           sighashtype == GetPSBTSigHash(choice[r])
           arg == SignArg(sign, sighashtype)
           processed == walletprocesspsbt(customerPSBT[r], sign, sighashtype)
       IN  \/ Catch(r, << Ev("walletprocesspsbt", FALSE, arg) >>)
           \/ /\ Log(r, << Ev("walletprocesspsbt", TRUE, arg) >>)
              /\ ClearGetPSBT(r)
              /\ IF choice[r] = "psbt"
                 THEN /\ originalPSBT' = Set(originalPSBT, r, processed)
                      /\ pc' = Set(pc, r, "createPSBT")
                      /\ UNCHANGED signedPSBTNI
                 ELSE /\ signedPSBTNI' = Set(signedPSBTNI, r, processed)
                      /\ pc' = Set(pc, r, "createPSBTNI")
                      /\ UNCHANGED originalPSBT
              /\ UNCHANGED <<env, choice, feeIncludedPSBT, readPSBT, signedPSBT,
                             broadcastPSBT, broadcastPSBTNI, readPSBTNI>>

\* ---------------------------------------------------------------- psbt

\* lines 131-132
CreatePSBT(r) ==
    /\ pc[r] = "createPSBT"
    /\ \/ Catch(r, << Ev("createPSBT", FALSE, "") >>)
       \/ \E rec \in CreateResponses(originalPSBT[r]) :
            /\ Log(r, << Ev("createPSBT", TRUE, rec.state) >>)
            /\ records' = Set(records, rec.id, rec)
            /\ feeIncludedPSBT' = Set(feeIncludedPSBT, r, rec)
            /\ pc' = Set(pc, r, "readPSBT")
            /\ UNCHANGED <<unspent, choice, getPSBTLocals, originalPSBT, readPSBT,
                           signedPSBT, broadcastPSBT, psbtniLocals>>

\* Mutant: the flow goes on to sign whatever the check found.
AfterFirstCheck_Ignored(passed) == "processPSBT"

\* Mutant: a failed check makes the flow fetch the record again.
AfterFirstCheck_Retry(passed) == IF passed THEN "processPSBT" ELSE "readPSBT"

\* Where psbt goes after the equality check of line 137.
AfterFirstCheck(passed) == IF passed THEN "processPSBT" ELSE "catch"

\* lines 133-137
ReadPSBT(r) ==
    /\ pc[r] = "readPSBT"
    /\ \/ Catch(r, << Ev("readPSBT", FALSE, "") >>)
       \/ \E rec \in ReadResponses(feeIncludedPSBT[r].id) :
            LET passed == deepStrictEqual(rec, feeIncludedPSBT[r])
                evs == << Ev("readPSBT", TRUE, rec.state),
                          Ev("deepStrictEqual", passed,
                             Diff(rec, feeIncludedPSBT[r])) >>
            IN  IF AfterFirstCheck(passed) = "catch"
                THEN Catch(r, evs)
                ELSE /\ Log(r, evs)
                     /\ readPSBT' = Set(readPSBT, r, rec)
                     /\ pc' = Set(pc, r, AfterFirstCheck(passed))
                     /\ UNCHANGED <<env, choice, getPSBTLocals, originalPSBT,
                                    feeIncludedPSBT, signedPSBT, broadcastPSBT,
                                    psbtniLocals>>

\* Mutant: a signing call that threw is swallowed and the flow goes on.
AfterSigning_Swallowed(returned) == "updatePSBT"

\* Where psbt goes after the awaited signing call of line 145: on, or, when
\* the call threw, to the flow's catch.
AfterSigning(returned) == IF returned THEN "updatePSBT" ELSE "catch"

\* lines 144-145 (processPSBT, lines 101-112)
ProcessPSBT(r) ==
    /\ pc[r] = "processPSBT"
    /\ \E returned \in BOOLEAN :
        LET arg == SignArg(ProcessPSBTSign, ProcessPSBTSigHash)
            evs == << Ev("walletprocesspsbt", returned, arg) >>
        IN  IF AfterSigning(returned) = "catch"
            THEN Catch(r, evs)
            ELSE /\ Log(r, evs)
                 /\ signedPSBT' = Set(signedPSBT, r,
                       IF returned
                       THEN walletprocesspsbt(feeIncludedPSBT[r].psbt, ProcessPSBTSign,
                                              ProcessPSBTSigHash)
                       ELSE feeIncludedPSBT[r].psbt)
                 /\ pc' = Set(pc, r, AfterSigning(returned))
                 /\ UNCHANGED <<env, choice, getPSBTLocals, originalPSBT,
                                feeIncludedPSBT, readPSBT, broadcastPSBT, psbtniLocals>>

\* lines 147-148
UpdatePSBT(r) ==
    /\ pc[r] = "updatePSBT"
    /\ \/ Catch(r, << Ev("updatePSBT", FALSE, "") >>)
       \/ \E rec \in UpdateResponses(feeIncludedPSBT[r].id, signedPSBT[r]) :
            /\ Log(r, << Ev("updatePSBT", TRUE, rec.state) >>)
            /\ records' = Set(records, rec.id, rec)
            /\ unspent' = Ledger(rec, signedPSBT[r])
            /\ broadcastPSBT' = Set(broadcastPSBT, r, rec)
            /\ pc' = Set(pc, r, "readFinalPSBT")
            /\ UNCHANGED <<choice, getPSBTLocals, originalPSBT, feeIncludedPSBT,
                           readPSBT, signedPSBT, psbtniLocals>>

\* lines 149-153, and the flow returning to run
ReadFinalPSBT(r) ==
    /\ pc[r] = "readFinalPSBT"
    /\ \/ Catch(r, << Ev("readPSBT", FALSE, "") >>)
       \/ \E rec \in ReadResponses(broadcastPSBT[r].id) :
            LET passed == deepStrictEqual(rec, broadcastPSBT[r])
                evs == << Ev("readPSBT", TRUE, rec.state),
                          Ev("deepStrictEqual", passed,
                             Diff(rec, broadcastPSBT[r])) >>
            IN  IF ~passed
                THEN Catch(r, evs)
                ELSE /\ Log(r, evs)
                     /\ pc' = Set(pc, r, AfterFlow(choice[r]))
                     /\ ClearGetPSBT(r)
                     /\ ClearFlows(r)
                     /\ UNCHANGED <<env, choice>>

\* -------------------------------------------------------------- psbtni

\* lines 172-173
CreatePSBTNI(r) ==
    /\ pc[r] = "createPSBTNI"
    /\ \/ Catch(r, << Ev("createPSBTNI", FALSE, "") >>)
       \/ \E rec \in CreateResponses(signedPSBTNI[r]) :
            /\ Log(r, << Ev("createPSBTNI", TRUE, rec.state) >>)
            /\ records' = Set(records, rec.id, rec)
            /\ unspent' = Ledger(rec, signedPSBTNI[r])
            /\ broadcastPSBTNI' = Set(broadcastPSBTNI, r, rec)
            /\ pc' = Set(pc, r, "readPSBTNI")
            /\ UNCHANGED <<choice, getPSBTLocals, psbtLocals, signedPSBTNI, readPSBTNI>>

\* lines 174-178, and the flow returning to run
ReadPSBTNI(r) ==
    /\ pc[r] = "readPSBTNI"
    /\ \/ Catch(r, << Ev("readPSBTNI", FALSE, "") >>)
       \/ \E rec \in ReadResponses(broadcastPSBTNI[r].id) :
            LET passed == deepStrictEqual(rec, broadcastPSBTNI[r])
                evs == << Ev("readPSBTNI", TRUE, rec.state),
                          Ev("deepStrictEqual", passed,
                             Diff(rec, broadcastPSBTNI[r])) >>
            IN  IF ~passed
                THEN Catch(r, evs)
                ELSE /\ Log(r, evs)
                     /\ pc' = Set(pc, r, AfterFlow(choice[r]))
                     /\ ClearGetPSBT(r)
                     /\ ClearFlows(r)
                     /\ UNCHANGED <<env, choice>>

\* ------------------------------------------------------- specifications

InitLocals ==
    /\ trace = [r \in Runs |-> <<>>]
    /\ unspentUTXOs = [r \in Runs |-> <<>>]
    /\ customerPSBT = [r \in Runs |-> NoPSBT]
    /\ originalPSBT = [r \in Runs |-> NoPSBT]
    /\ feeIncludedPSBT = [r \in Runs |-> NoRecord]
    /\ readPSBT = [r \in Runs |-> NoRecord]
    /\ signedPSBT = [r \in Runs |-> NoPSBT]
    /\ broadcastPSBT = [r \in Runs |-> NoRecord]
    /\ signedPSBTNI = [r \in Runs |-> NoPSBT]
    /\ broadcastPSBTNI = [r \in Runs |-> NoRecord]
    /\ readPSBTNI = [r \in Runs |-> NoRecord]

InitSponsor == records = [i \in Ids |-> NoRecord]

\* One run (line 240); the other is never started.
Init ==
    /\ \E f \in Wallets : unspent = WalletOf(f)
    /\ InitSponsor
    /\ \E c \in Argv : choice = [r \in Runs |-> IF r = 1 THEN c ELSE "undefined"]
    /\ pc = [r \in Runs |-> IF r = 1 THEN "run" ELSE "unstarted"]
    /\ InitLocals

\* Two runs started against the same wallet and sponsor.  The coins all have
\* amount 1: which coin a run spends does not depend on the amounts.
InitConc ==
    /\ \E n \in 0..MaxCoins : unspent = WalletOf([i \in 1..n |-> 1])
    /\ InitSponsor
    /\ choice \in [Runs -> Argv]
    /\ pc = [r \in Runs |-> "run"]
    /\ InitLocals

Next ==
    \E r \in Runs :
        \/ RunStart(r)
        \/ ReadApiKey(r)
        \/ ReadCredit(r)
        \/ ReadFee(r)
        \/ ReadRate(r)
        \/ ListUnspent(r)
        \/ CreatePsbt(r)
        \/ WalletProcessPsbt(r)
        \/ CreatePSBT(r)
        \/ ReadPSBT(r)
        \/ ProcessPSBT(r)
        \/ UpdatePSBT(r)
        \/ ReadFinalPSBT(r)
        \/ ReadPSBTs(r)
        \/ CreatePSBTNI(r)
        \/ ReadPSBTNI(r)
        \/ ReadPSBTNIs(r)

Spec == Init /\ [][Next]_vars
SpecConc == InitConc /\ [][Next]_vars
\* One run whose awaited calls all eventually return or throw.
SpecFair == Init /\ [][Next]_vars /\ WF_vars(Next)


\* =============================================================== claims

\* Reading a run's trace.
Op(e) == e[1]
Ok(e) == e[2]
Arg(e) == e[3]
Events(r) == 1..Len(trace[r])
Called(r, ops) == \E i \in Events(r) : Op(trace[r][i]) \in ops
Printed(r, op, text) == \E i \in Events(r) : trace[r][i] = Ev(op, TRUE, text)
\* A full-commitment signing call (processPSBT with sign = true, "ALL").
IsFullSigning(e) == Op(e) = "walletprocesspsbt" /\ Arg(e) = "ALL"
\* The candidate run r has built and not yet let go of.
Candidate(r) == IF choice[r] = "psbt" THEN originalPSBT[r] ELSE signedPSBTNI[r]
\* The customer's own inputs and outputs of candidate cand appear unchanged
\* in blob.
CustomerPartsPreserved(cand, blob) ==
    /\ Len(blob.ins) >= Len(cand.ins)
    /\ Len(blob.outs) >= Len(cand.outs)
    /\ SubSeq(blob.ins, 1, Len(cand.ins)) = cand.ins
    /\ SubSeq(blob.outs, 1, Len(cand.outs)) = cand.outs

\* C1: in the interactive flow, when the record createPSBT returned carries a
\* transaction whose customer-owned inputs or outputs differ from the
\* submitted candidate, the signing operation is never invoked in that run.
C1_TamperedNeverSigned ==
    \A r \in Runs :
        ( /\ choice[r] = "psbt"
          /\ feeIncludedPSBT[r] # NoRecord
          /\ ~CustomerPartsPreserved(originalPSBT[r], feeIncludedPSBT[r].psbt) )
        => ~\E i \in Events(r) : IsFullSigning(trace[r][i])

\* C2: a run whose mode selector is not one of the three recognized values
\* (a missing one included) makes no collaborator call, and ends having
\* printed the invalid-choice error and nothing else.
C2_InvalidModeNoCalls ==
    \A r \in Runs :
        (pc[r] # "unstarted" /\ choice[r] \notin UserChoice)
        => /\ ~Called(r, CollaboratorOps)
           /\ pc[r] \in {"run", "done"}
           /\ pc[r] = "done"
                => trace[r] = << Ev("console.log", TRUE, "Invalid user choice.") >>
C2_Witness ==
    \E r \in Runs : choice[r] = "none" /\ pc[r] = "done"

\* C3: in the interactive flow every full-commitment signing call comes
\* right after a passed equality check of the re-fetched record against the
\* record createPSBT returned, and while the flow holds a signing result the
\* two records are equal.
C3_SignOnlyAfterCheck ==
    \A r \in Runs :
        /\ \A i \in Events(r) :
              IsFullSigning(trace[r][i])
              => /\ i > 3
                 /\ trace[r][i-1] = Ev("deepStrictEqual", TRUE, "")
                 /\ Op(trace[r][i-2]) = "readPSBT" /\ Ok(trace[r][i-2])
                 /\ Op(trace[r][i-3]) = "createPSBT" /\ Ok(trace[r][i-3])
        /\ pc[r] \in {"processPSBT", "updatePSBT"}
              => /\ feeIncludedPSBT[r] # NoRecord
                 /\ readPSBT[r] = feeIncludedPSBT[r]
C3_Witness ==
    \E r \in Runs : pc[r] = "updatePSBT" /\ signedPSBT[r].sig = "ALL"

\* C4: an interactive run prints "Done." only if its flow did not fail, the
\* last re-fetched record is in state Broadcast and both equality checks
\* passed.
C4_DoneOnlyAfterBroadcast ==
    \A r \in Runs :
        (choice[r] = "psbt" /\ Printed(r, "console.log", "Done."))
        => /\ ~Printed(r, "console.error", "PSBT failed:")
           /\ \E i \in Events(r) :
                 /\ i > 4
                 /\ trace[r][i] = Ev("deepStrictEqual", TRUE, "")
                 /\ trace[r][i-1] = Ev("readPSBT", TRUE, "Broadcast")
                 /\ Op(trace[r][i-2]) = "updatePSBT" /\ Ok(trace[r][i-2])

\* C5: after an error at any step (a call that threw, a failed equality
\* check) the run makes no further collaborator call.
C5_NoCallAfterFailure ==
    \A r \in Runs :
        \A i, j \in Events(r) :
            (i < j /\ ~Ok(trace[r][i])) => Op(trace[r][j]) \notin CollaboratorOps

C7_NonInteractiveBroadcast ==
    \A r \in Runs :
        \A i \in Events(r) :
            ( /\ i > 2
              /\ trace[r][i] = Ev("deepStrictEqual", TRUE, "")
              /\ Op(trace[r][i-1]) = "readPSBTNI" )
            => /\ trace[r][i-1] = Ev("readPSBTNI", TRUE, "Broadcast")
               /\ trace[r][i-2] = Ev("createPSBTNI", TRUE, "Broadcast")
               /\ ~Called(r, {"updatePSBT", "createPSBT"})

\* C8: two runs in progress never hold candidate transactions that spend the
\* same unspent coin.
C8_NoSharedCoin ==
    \A r1, r2 \in Runs :
        (r1 # r2 /\ Candidate(r1) # NoPSBT /\ Candidate(r2) # NoPSBT)
        => ~\E i \in 1..Len(Candidate(r1).ins), j \in 1..Len(Candidate(r2).ins) :
               Candidate(r1).ins[i] = Candidate(r2).ins[j]

\* C9: when listunspent reports no coin, getPSBT fails: createpsbt and
\* walletprocesspsbt are never called, nothing is submitted to the sponsor,
\* and the flow's failure is printed.
C9_NoCoinNoTransaction ==
    \A r \in Runs :
        \A i \in Events(r) :
            trace[r][i] = Ev("listunspent", TRUE, "no coin")
            => /\ ~Called(r, {"createpsbt", "walletprocesspsbt", "createPSBT",
                              "createPSBTNI", "updatePSBT"})
               /\ i < Len(trace[r])
               /\ Op(trace[r][i+1]) = "console.error"
C9_Witness ==
    \E r \in Runs :
        /\ Printed(r, "listunspent", "no coin")
        /\ pc[r] = "done"

\* The candidate b spends and pays what the claim says, for the coins
\* reported: one output, to OUTPUT_ADDRESS, outputs equal to inputs.
ZeroFeeToDestination(b, coins) ==
    /\ Len(b.outs) = 1
    /\ b.outs[1].address = OUTPUT_ADDRESS
    /\ SumAmounts(b.outs) = InputAmount(b.ins, coins)
\* Where a run holds a candidate: built (customerPSBT, with the coins getPSBT
\* was given) or returned by getPSBT (with the coins the wallet still holds).
Built(r) == pc[r] = "walletprocesspsbt"
Returned(r) == pc[r] \in {"createPSBT", "createPSBTNI"}

\* C10 as stated: the candidate's output amount is the total amount of the
\* reported coins.
C10_SendsTotalAvailable ==
    \A r \in Runs :
        /\ Built(r) => /\ ZeroFeeToDestination(customerPSBT[r], unspentUTXOs[r])
                       /\ customerPSBT[r].outs[1].amount = SumAmounts(unspentUTXOs[r])
        /\ Returned(r) => /\ ZeroFeeToDestination(Candidate(r), unspent)
                          /\ Candidate(r).outs[1].amount = SumAmounts(unspent)

\* C10 amended: the candidate spends the first reported coin only and sends
\* that coin's amount to OUTPUT_ADDRESS with zero fee.
C10_SendsFirstCoin ==
    \A r \in Runs :
        /\ Built(r) => /\ ZeroFeeToDestination(customerPSBT[r], unspentUTXOs[r])
                       /\ customerPSBT[r].outs[1].amount = unspentUTXOs[r][1].amount
                       /\ Len(customerPSBT[r].ins) = 1
                       /\ CoinsOf(customerPSBT[r].ins[1], unspentUTXOs[r])
                            = << unspentUTXOs[r][1] >>
        /\ Returned(r) => /\ ZeroFeeToDestination(Candidate(r), unspent)
                          /\ Candidate(r).outs[1].amount = unspent[1].amount
                          /\ Len(Candidate(r).ins) = 1
                          /\ CoinsOf(Candidate(r).ins[1], unspent) = << unspent[1] >>
C10_Witness ==
    \E r \in Runs :
        /\ Returned(r)
        /\ Len(unspent) > 1
        /\ unspent[1].amount # unspent[2].amount


\* The steps of an exchange flow that come after an equality check.
FlowOps == WalletOps \cup ExchangeOps \cup {"deepStrictEqual"}

\* C11: in both flows, an equality check of a re-fetched record that differs
\* from the record the preceding create / update call returned, in asset, id,
\* state or blob, fails; the flow's failure is printed next and no later step
\* of the flow (signing, resubmit, re-fetch, check) is executed.
C11_MismatchStopsFlow ==
    \A r \in Runs :
        \A i \in Events(r) :
            (Op(trace[r][i]) = "deepStrictEqual" /\ Arg(trace[r][i]) # "")
            => /\ ~Ok(trace[r][i])
               /\ i < Len(trace[r])
               /\ Op(trace[r][i+1]) = "console.error"
               /\ \A j \in Events(r) : j > i => Op(trace[r][j]) \notin FlowOps
C11_Witness ==
    \E r \in Runs :
        /\ pc[r] = "done"
        /\ \E i \in Events(r) : trace[r][i] = Ev("deepStrictEqual", FALSE, "state")


\* A call that asked the wallet for a signature, with whatever SIG_HASH type.
IsSigning(e) == Op(e) = "walletprocesspsbt" /\ Arg(e) # "unsigned"

\* C12: the commitment policy is fixed per step.  Interactive: the candidate
\* handed to createPSBT is unsigned, every signing call uses ALL, and what is
\* handed to updatePSBT is the blob createPSBT returned, signed with ALL.
\* Non-interactive: the blob handed to createPSBTNI is signed with
\* ALL|ANYONECANPAY, every signing call uses it, and ALL is never used.
C12_CommitmentPerStep ==
    \A r \in Runs :
        /\ choice[r] = "psbt"
             => /\ \A i \in Events(r) :
                      /\ IsSigning(trace[r][i]) => Arg(trace[r][i]) = "ALL"
                      /\ Op(trace[r][i]) = "createPSBT"
                           => ~\E j \in 1..i : IsSigning(trace[r][j])
                /\ pc[r] = "createPSBT" => originalPSBT[r].sig = "unsigned"
                /\ pc[r] = "updatePSBT"
                     => /\ signedPSBT[r].sig = "ALL"
                        /\ signedPSBT[r] = [feeIncludedPSBT[r].psbt EXCEPT !.sig = "ALL"]
        /\ choice[r] = "psbtni"
             => /\ \A i \in Events(r) :
                      /\ IsSigning(trace[r][i]) => Arg(trace[r][i]) = "ALL|ANYONECANPAY"
                      /\ Op(trace[r][i]) = "createPSBTNI"
                           => i > 1 /\ trace[r][i-1]
                                         = Ev("walletprocesspsbt", TRUE, "ALL|ANYONECANPAY")
                /\ pc[r] = "createPSBTNI" => signedPSBTNI[r].sig = "ALL|ANYONECANPAY"
C12_Witness ==
    \E r \in Runs :
        /\ choice[r] = "psbtni"
        /\ pc[r] = "readPSBTNI"
        /\ signedPSBTNI[r].sig = "ALL|ANYONECANPAY"


\* C13: a signing call that failed is fatal to the exchange: the run never
\* calls updatePSBT or createPSBTNI, and the flow's failure is printed next.
C13_SigningFailureFatal ==
    \A r \in Runs :
        \A i \in Events(r) :
            (IsSigning(trace[r][i]) /\ ~Ok(trace[r][i]))
            => /\ ~Called(r, {"updatePSBT", "createPSBTNI"})
               /\ i < Len(trace[r])
               /\ Op(trace[r][i+1]) = "console.error"
C13_Witness ==
    \E r \in Runs :
        /\ pc[r] = "done"
        /\ \E i \in Events(r) : trace[r][i] = Ev("walletprocesspsbt", FALSE, "ALL")


\* How many lines of run r's trace satisfy Test.
Count(r, Test(_)) == Cardinality({ i \in Events(r) : Test(trace[r][i]) })
IsOp(e, op) == Op(e) = op
IsSubmission(e) == Op(e) \in {"createPSBT", "updatePSBT", "createPSBTNI"}
IsReturnedSubmission(e) == IsSubmission(e) /\ Ok(e)
IsCheck(e) == Op(e) = "deepStrictEqual"
IsFetch(e) == Op(e) \in {"readPSBT", "readPSBTNI"}

\* C14: no step is retried.  In any run createPSBT, updatePSBT and
\* createPSBTNI are each attempted at most once, there is at most one signing
\* call, and every re-fetch and every equality check belongs to its own
\* returned submission (at most one per createPSBT, updatePSBT, createPSBTNI).
C14_NoRetry ==
    \A r \in Runs :
        /\ Count(r, LAMBDA e : IsOp(e, "createPSBT")) <= 1
        /\ Count(r, LAMBDA e : IsOp(e, "updatePSBT")) <= 1
        /\ Count(r, LAMBDA e : IsOp(e, "createPSBTNI")) <= 1
        /\ Count(r, IsSigning) <= 1
        /\ Count(r, IsCheck) <= Count(r, IsReturnedSubmission)
        /\ Count(r, IsFetch) <= Count(r, IsReturnedSubmission)
        /\ \A i \in Events(r) :
              (IsCheck(trace[r][i]) \/ IsFetch(trace[r][i]))
              => i > 1 /\ ( \/ IsReturnedSubmission(trace[r][i-1])
                            \/ IsCheck(trace[r][i]) /\ IsFetch(trace[r][i-1]) )
C14_Witness ==
    \E r \in Runs :
        /\ pc[r] = "done"
        /\ Count(r, IsCheck) = 1
        /\ \E i \in Events(r) : IsCheck(trace[r][i]) /\ ~Ok(trace[r][i])


\* Run r's exchange flow has failed: its catch has printed the failure.
FlowFailed(r) ==
    \E i \in Events(r) : Op(trace[r][i]) = "console.error"

\* C15: the client never attempts a rollback.  No createPSBT, updatePSBT or
\* createPSBTNI call follows a failed step or the printed failure of a flow,
\* and once the (only) run's flow has failed the sponsor's records stay as
\* they are.
C15_NoRollback ==
    /\ [](\A r \in Runs :
            \A i, j \in Events(r) :
                ( /\ i < j
                  /\ \/ Op(trace[r][i]) = "console.error"
                     \/ Op(trace[r][i]) \in FlowOps /\ ~Ok(trace[r][i]) )
                => ~IsSubmission(trace[r][j]))
    /\ [][(\E r \in Runs : FlowFailed(r)) => records' = records]_vars
C15_Witness ==
    \E r \in Runs :
        /\ pc[r] = "done"
        /\ FlowFailed(r)
        /\ \E i \in Events(r) : Op(trace[r][i]) = "updatePSBT" /\ Ok(trace[r][i])


\* C16: the flows are mutually exclusive per run.  A basic run makes no
\* wallet call and no createPSBT / updatePSBT / createPSBTNI call (nor a
\* re-fetch); an interactive run never calls createPSBTNI or readPSBTNI; a
\* non-interactive run never calls createPSBT, updatePSBT or readPSBT.
C16_FlowsExclusive ==
    \A r \in Runs :
        /\ choice[r] = "basic" => ~Called(r, WalletOps \cup ExchangeOps)
        /\ choice[r] = "psbt" => ~Called(r, {"createPSBTNI", "readPSBTNI"})
        /\ choice[r] = "psbtni" => ~Called(r, {"createPSBT", "updatePSBT", "readPSBT"})
C16_Witness ==
    \E r \in Runs :
        /\ choice[r] = "basic"
        /\ Printed(r, "readPSBTs", "")
        /\ Printed(r, "readPSBTNIs", "")
        /\ Printed(r, "console.log", "Done.")


\* A pre-check that did not succeed: the call threw, or readApiKey returned a
\* key that is not the configured one.
IsFailedPreCheck(e) ==
    /\ Op(e) \in PreCheckOps
    /\ \/ ~Ok(e)
       \/ Op(e) = "readApiKey" /\ Arg(e) # FAAS_KEY

\* C17: an exchange flow starts only after the account pre-checks succeeded.
\* When one of them fails the run ends at once with a printed error that is
\* not "Done.", and makes no wallet call and no createPSBT / createPSBTNI
\* call (nor any other exchange call).
C17_PreChecksFirst ==
    \A r \in Runs :
        /\ \A i \in Events(r) :
              IsFailedPreCheck(trace[r][i])
              => /\ Len(trace[r]) = i + 1
                 /\ Op(trace[r][i+1]) = "console.log"
                 /\ Arg(trace[r][i+1]) # "Done."
                 /\ pc[r] = "done"
                 /\ ~Called(r, WalletOps \cup ExchangeOps)
        /\ Called(r, WalletOps \cup ExchangeOps)
              => /\ Len(trace[r]) > 4
                 /\ trace[r][1] = Ev("readApiKey", TRUE, FAAS_KEY)
                 /\ trace[r][2] = Ev("readCredit", TRUE, "")
                 /\ trace[r][3] = Ev("readFee", TRUE, "")
                 /\ trace[r][4] = Ev("readRate", TRUE, "")
C17_Witness ==
    \E r \in Runs :
        /\ choice[r] = "psbt"
        /\ pc[r] = "done"
        /\ trace[r] = << Ev("readApiKey", TRUE, OtherKey),
                         Ev("console.log", TRUE, "AssertionError") >>


\* The top-level outcomes of run r: the lines of lines 241 and 242.
IsOutcome(e) == Op(e) = "console.log"
IsDone(e) == e = Ev("console.log", TRUE, "Done.")
IsTopLevelError(e) == IsOutcome(e) /\ ~IsDone(e)

\* C18: if every awaited call eventually returns or throws, every started
\* run terminates, and a terminated run has printed exactly one top-level
\* outcome, "Done." or an error message, as its last line; a run that has not
\* terminated has printed none.
C18_TerminatesWithOneOutcome ==
    /\ \A r \in Runs : (pc[r] # "unstarted") ~> (pc[r] = "done")
    /\ [](\A r \in Runs :
            /\ pc[r] = "done"
                 => /\ Count(r, IsOutcome) = 1
                    /\ Count(r, IsDone) + Count(r, IsTopLevelError) = 1
                    /\ IsOutcome(trace[r][Len(trace[r])])
            /\ pc[r] # "done" => Count(r, IsOutcome) = 0)
C18_Witness ==
    \E r \in Runs :
        /\ pc[r] = "done"
        /\ FlowFailed(r)
        /\ IsDone(trace[r][Len(trace[r])])

====
